---- MODULE Spec2Model ----
(***************************************************************************)
(* Health/expiry monitor with deduplicated alerting (main.py,              *)
(* routes/tools.py) and the analytics aggregator with its freshness cache  *)
(* (core/analytics_aggregator.py) of the portfolio CMS backend.            *)
(*                                                                         *)
(* Time is the value of datetime.now(), counted in minutes from the start  *)
(* of day 0.  The monitor specifications advance it in steps of hours, the *)
(* aggregator specifications in steps of one minute.                       *)
(***************************************************************************)
EXTENDS Integers, Sequences, FiniteSets, TLC

VARIABLES
    db,         \* database.db is set: the store handle was initialised
    now,        \* datetime.now(), in minutes
    vault,      \* collection 'vault', category == 'deployment': id -> record
    domains,    \* collection 'domains': id -> expiry_date field
    messages,   \* collection 'messages': set of documents
    pushes,     \* calls of send_push_notification the monitor made that
                \* went out, per subject
    faults,     \* document-store errors raised so far
    pc,         \* per worker: position in the running job
    todo,       \* per worker: documents of the current loop not yet finished
    status,     \* per worker: local `status` of the liveness loop
    days,       \* per worker: local `days` of the expiry loop
    examined,   \* per worker: items whose loop body was entered in this run
    failed,     \* per worker: items whose probe or date parse raised in this run
    events,     \* collection 'analytics', in the order a scan returns it
    analytics_summary,  \* document analytics_summary/summary: {} or {record}
    scanned,    \* per worker: local `all_analytics` of aggregate_analytics
    ref,        \* per worker: local `now` of aggregate_analytics
    result,     \* per worker: what the call returned: {} (None) or {summary}
    age         \* per worker: local `age` of get_analytics_summary: {} or {n}

aggVars == <<events, analytics_summary, scanned, ref, result, age>>

vars == <<db, now, vault, domains, messages, pushes, faults,
          pc, todo, status, days, examined, failed, aggVars>>

----------------------------------------------------------------------------
(* Bounds and scenario sets *)

Workers == {"w1", "w2"}
Endpoints == {"e1", "e2"}
Domains == {"d1", "d2"}
\* order in which a collection scan returns its documents (by document id)
EndpointOrder == <<"e1", "e2">>
DomainOrder == <<"d1", "d2">>

\* the instants, in hours, at which the monitor specifications observe the
\* program: around the end of the 24 h window, and on both sides of midnight
ClockHours == {0, 23, 24, 25}
\* the same, in the specification of overlapping runs
ConcClockHours == {0, 25}
MaxFaults == 1
\* documents in the collections 'vault' (deployments) and 'domains' together
MaxDocs == 2
\* the same, in the specification of overlapping runs
MaxConcDocs == 1
\* expiry_date values of the domain records: a date (day number), a string
\* strptime rejects, or no value
ExpiryDays == {1, 8, 31}
ExpiryValues ==
    {[kind |-> "date", day |-> d] : d \in ExpiryDays}
        \cup {[kind |-> "bad", day |-> 0], [kind |-> "none", day |-> 0]}

\* timedelta(hours=24) of the monitor's dedup check
\* the start of 1 January, in minutes; the aggregator scenarios run from
\* MinutesBefore minutes before it to MinutesAfter minutes after it
NewYear == 400 * 1440
MinutesBefore == 1
MinutesAfter == 1
\* at most this many documents in collection 'analytics'
MaxEvents == 2
\* the ranking scenarios: up to MaxItems items in first-seen order, each
\* viewed 1..MaxViews times
MaxItems == 6
MaxViews == 3
ItemOrder == <<"A", "B", "C", "D", "E", "F", "G">>
TitleOrder == <<"T1", "T2", "T3", "T4">>
\* the membership scenarios: up to MaxMixed views of mixed types
MaxMixed == 4
\* timedelta(minutes=5)
FreshMinutes == 5
\* [:5]
TopN == 5

DedupHours == 24
\* timedelta(hours=1) of the dedup check of /vault/checks
ChecksHours == 1

----------------------------------------------------------------------------
(* Pure helpers *)

\* f"🚨 Outage: {name}"
OutageSubject(e) == [kind |-> "outage", name |-> e]

\* the critical tier starting below 7 days instead of at 7
AlertTypeBelow7(d) == IF d < 7 THEN "critical" ELSE "warning"

\* alert_type = 'critical' if days <= 7 else 'warning'
AlertType(d) == IF d <= 7 THEN "critical" ELSE "warning"

\* one subject per domain, whatever the tier
DomainSubjectOneTier(dom, d) == [kind |-> "domain_warning", name |-> dom]

\* f"{'🚨' if days <= 7 else '📅'} Domain Alert: {domain_name}"
DomainSubject(dom, d) ==
    [kind |-> IF d <= 7 THEN "domain_critical" ELSE "domain_warning",
     name |-> dom]

\* "⚠️ System Health Alert"
HealthSubject == [kind |-> "system_health", name |-> "services"]

AllSubjects ==
    {OutageSubject(e) : e \in Endpoints}
        \cup {[kind |-> k, name |-> d] :
                 k \in {"domain_critical", "domain_warning"}, d \in Domains}
        \cup {HealthSubject}

\* the day count without its + 1
DaysRemainingNoRound(day, t) == (day * 1440 - t) \div 1440

\* (expiry_date - datetime.now()).days + 1; timedelta.days is the floor
DaysRemaining(day, t) == ((day * 1440 - t) \div 1440) + 1

\* if days <= 30: an alert is due
AlertDue(d) == d <= 30

\* the comparison of the dedup check turned round
AlreadySentInverted(subject, t, hours) ==
    \E m \in messages : m.subject = subject /\ m.ts < t - hours * 60

\* the dedup check without its time filter
AlreadySentAnyAge(subject, t, hours) ==
    \E m \in messages : m.subject = subject

\* only the messages not yet read count in the dedup check
AlreadySentUnread(subject, t, hours) ==
    \E m \in messages :
        /\ m.subject = subject /\ m.ts_native /\ m.ts > t - hours * 60
        /\ ~ m.is_read

\* already_sent = any(timestamp > now - window for messages with subject)
AlreadySent(subject, t, hours) ==
    \E m \in messages :
        m.subject = subject /\ m.ts_native /\ m.ts > t - hours * 60

\* a message of the query whose timestamp is truthy but no time value (a
\* string written by a restore): .replace(tzinfo=None) raises on it
DedupRaises(subject) ==
    \E m \in messages : m.subject = subject /\ ~ m.ts_native

\* any() goes through the messages in the order of the query and stops at
\* the first recent one: it comes to an answer when no timestamp raises,
\* or when a recent message precedes those that would
DedupAnswers(subject, t, hours) ==
    ~ DedupRaises(subject) \/ AlreadySent(subject, t, hours)

\* the document collection('messages').add(...) stores; copy tells apart
\* documents that are equal field by field (the store gives each its own id)
NewMessage(subject, atype, text, d, t) ==
    LET base == [name |-> "System Monitor", subject |-> subject,
                 message |-> [text |-> text, days |-> d], ts |-> t,
                 ts_native |-> TRUE, is_read |-> FALSE, is_system |-> TRUE, alert_type |-> atype]
        same == {m \in messages : \A f \in DOMAIN base : m[f] = base[f]}
    IN  base @@ [copy |-> Cardinality(same)]

\* the first n documents of a collection
First(order, n) == {order[i] : i \in 1..n}

SeqOf(order, S) == SelectSeq(order, LAMBDA x : x \in S)

----------------------------------------------------------------------------
(* Initial state *)

\* no job is running
InitWorkers ==
    /\ faults = 0
    /\ pc = [w \in Workers |-> "idle"]
    /\ todo = [w \in Workers |-> <<>>]
    /\ status = [w \in Workers |-> "unknown"]
    /\ days = [w \in Workers |-> 0]
    /\ examined = [w \in Workers |-> {}]
    /\ failed = [w \in Workers |-> {}]
    /\ scanned = [w \in Workers |-> <<>>]
    /\ ref = [w \in Workers |-> 0]
    /\ result = [w \in Workers |-> {}]
    /\ age = [w \in Workers |-> {}]

InitDocs(maxDocs) ==
    /\ db = TRUE
    /\ now = 0
    /\ InitWorkers
    /\ events = <<>>
    /\ analytics_summary = {}
    /\ \E ne \in 0..Len(EndpointOrder), nd \in 0..Len(DomainOrder) :
           /\ ne + nd <= maxDocs
           /\ vault = [e \in First(EndpointOrder, ne) |->
                          [last_status |-> "unknown", last_check |-> {}]]
           /\ domains \in [First(DomainOrder, nd) -> ExpiryValues]
    /\ messages = {}
    /\ pushes = [s \in AllSubjects |-> 0]

Init == InitDocs(MaxDocs)

InitConc == InitDocs(MaxConcDocs)

----------------------------------------------------------------------------
(* check_services_health: the scheduled health/expiry job, one store or    *)
(* network call per step                                                   *)

Cur(w) == Head(todo[w])

\* end of one pass of `for d in ...vault...`; after the last document the job
\* falls through to section 2
NextEndpoint(w) ==
    /\ todo' = [todo EXCEPT ![w] = Tail(@)]
    /\ pc' = [pc EXCEPT ![w] = IF Len(todo[w]) > 1 THEN "probe" ELSE "domains"]

\* end of one pass of `for d in ...domains...`; after the last document the
\* job returns
NextDomain(w) ==
    /\ todo' = [todo EXCEPT ![w] = Tail(@)]
    /\ pc' = [pc EXCEPT ![w] = IF Len(todo[w]) > 1 THEN "parse" ELSE "done"]

\* the job starts (`if not database.db: return`) and reads the deployments
\* of the vault
check_services_health(w) ==
    /\ pc[w] = "idle"
    /\ todo' = [todo EXCEPT ![w] =
                   IF db THEN SeqOf(EndpointOrder, DOMAIN vault) ELSE <<>>]
    /\ pc' = [pc EXCEPT ![w] = IF ~db THEN "done"
                               ELSE IF DOMAIN vault = {} THEN "domains"
                               ELSE "probe"]
    /\ examined' = [examined EXCEPT ![w] = {}]
    /\ failed' = [failed EXCEPT ![w] = {}]
    /\ UNCHANGED <<db, now, vault, domains, messages, pushes, faults, status, days, aggVars>>

\* status = 'online' if requests.head(url, timeout=10).status_code < 400
\* else 'offline'; except: status = 'offline'
ProbeStatus(outcome) == IF outcome = "ok" THEN "online" ELSE "offline"

\* the probe without its try/except: a network error ends the job
health_probe_unguarded(w) ==
    /\ pc[w] = "probe"
    /\ \E outcome \in {"ok", "http_error", "exception"} :
           /\ status' = [status EXCEPT ![w] = ProbeStatus(outcome)]
           /\ failed' = [failed EXCEPT ![w] =
                            IF outcome = "exception" THEN @ \cup {Cur(w)} ELSE @]
           /\ pc' = [pc EXCEPT ![w] =
                        IF outcome = "exception" THEN "aborted" ELSE "update"]
    /\ examined' = [examined EXCEPT ![w] = @ \cup {Cur(w)}]
    /\ UNCHANGED <<db, now, vault, domains, messages, pushes, faults, todo, days, aggVars>>

health_probe(w) ==
    /\ pc[w] = "probe"
    /\ \E outcome \in {"ok", "http_error", "exception"} :
           /\ status' = [status EXCEPT ![w] = ProbeStatus(outcome)]
           /\ failed' = [failed EXCEPT ![w] =
                            IF outcome = "exception" THEN @ \cup {Cur(w)} ELSE @]
    /\ examined' = [examined EXCEPT ![w] = @ \cup {Cur(w)}]
    /\ pc' = [pc EXCEPT ![w] = "update"]
    /\ UNCHANGED <<db, now, vault, domains, messages, pushes, faults, todo, days, aggVars>>

\* the update is skipped when the observed status equals the stored one
health_update_on_change(w) ==
    /\ pc[w] = "update"
    /\ vault' = IF vault[Cur(w)].last_status = status[w] THEN vault
                ELSE [vault EXCEPT ![Cur(w)] =
                         [last_status |-> status[w], last_check |-> {now}]]
    /\ IF status[w] = "offline"
          THEN pc' = [pc EXCEPT ![w] = "query"] /\ UNCHANGED todo
          ELSE NextEndpoint(w)
    /\ UNCHANGED <<db, now, domains, messages, pushes, faults, status, days, examined, failed,
                   aggVars>>

\* the alert decision is taken only when the endpoint goes offline, not
\* while it stays offline
health_update_on_transition(w) ==
    /\ pc[w] = "update"
    /\ vault' = [vault EXCEPT ![Cur(w)] =
                    [last_status |-> status[w], last_check |-> {now}]]
    /\ IF status[w] = "offline" /\ vault[Cur(w)].last_status # "offline"
          THEN pc' = [pc EXCEPT ![w] = "query"] /\ UNCHANGED todo
          ELSE NextEndpoint(w)
    /\ UNCHANGED <<db, now, domains, messages, pushes, faults, status, days,
                   examined, failed, aggVars>>

\* vault.document(d.id).update({'last_check': now, 'last_status': status})
health_update(w) ==
    /\ pc[w] = "update"
    /\ vault' = [vault EXCEPT ![Cur(w)] =
                    [last_status |-> status[w], last_check |-> {now}]]
    /\ IF status[w] = "offline"
          THEN pc' = [pc EXCEPT ![w] = "query"] /\ UNCHANGED todo
          ELSE NextEndpoint(w)
    /\ UNCHANGED <<db, now, domains, messages, pushes, faults, status, days, examined, failed,
                   aggVars>>

\* recent_msgs = messages.where('subject', '==', subject).get(); already_sent
health_dedup(w) ==
    /\ pc[w] = "query"
    /\ DedupAnswers(OutageSubject(Cur(w)), now, DedupHours)
    /\ IF AlreadySent(OutageSubject(Cur(w)), now, DedupHours)
          THEN NextEndpoint(w)
          ELSE pc' = [pc EXCEPT ![w] = "push"] /\ UNCHANGED todo
    /\ UNCHANGED <<db, now, vault, domains, messages, pushes, faults, status, days,
                   examined, failed, aggVars>>

\* send_push_notification(subject, msg)
health_push(w) ==
    /\ pc[w] = "push"
    /\ pushes' = [pushes EXCEPT ![OutageSubject(Cur(w))] = @ + 1]
    /\ pc' = [pc EXCEPT ![w] = "insert"]
    /\ UNCHANGED <<db, now, vault, domains, messages, faults, todo, status, days,
                   examined, failed, aggVars>>

\* messages.add({... 'timestamp': datetime.now(), 'alert_type': 'critical'})
health_insert(w) ==
    /\ pc[w] = "insert"
    /\ messages' = messages \cup
           {NewMessage(OutageSubject(Cur(w)), "critical", "Unreachable", 0, now)}
    /\ NextEndpoint(w)
    /\ UNCHANGED <<db, now, vault, domains, pushes, faults, status, days, examined, failed, aggVars>>

\* a document-store call of section 1, or the scan that opens section 2,
\* raises: nothing catches it inside the job, which ends there
health_store_error(w) ==
    /\ pc[w] \in {"update", "query", "push", "insert", "domains"}
    /\ faults < MaxFaults
    /\ faults' = faults + 1
    /\ pc' = [pc EXCEPT ![w] = "aborted"]
    /\ UNCHANGED <<db, now, vault, domains, messages, pushes, todo, status, days,
                   examined, failed, aggVars>>

\* for d in database.db.collection('domains').get()
expiry_scan(w) ==
    /\ pc[w] = "domains"
    /\ todo' = [todo EXCEPT ![w] = SeqOf(DomainOrder, DOMAIN domains)]
    /\ pc' = [pc EXCEPT ![w] = IF DOMAIN domains = {} THEN "done" ELSE "parse"]
    /\ UNCHANGED <<db, now, vault, domains, messages, pushes, faults, status, days,
                   examined, failed, aggVars>>

\* expiry_str = data.get('expiry_date'); strptime; days; if days <= 30
expiry_parse(w) ==
    /\ pc[w] = "parse"
    /\ examined' = [examined EXCEPT ![w] = @ \cup {Cur(w)}]
    /\ failed' = [failed EXCEPT ![w] =
                     IF domains[Cur(w)].kind = "bad" THEN @ \cup {Cur(w)} ELSE @]
    /\ LET exp == domains[Cur(w)]
           d == DaysRemaining(exp.day, now)
       IN  IF exp.kind = "date"
              THEN /\ days' = [days EXCEPT ![w] = d]
                   /\ IF AlertDue(d)
                         THEN pc' = [pc EXCEPT ![w] = "dquery"] /\ UNCHANGED todo
                         ELSE NextDomain(w)
              ELSE \* no expiry_date, or strptime raised and the except logged it
                   NextDomain(w) /\ UNCHANGED days
    /\ UNCHANGED <<db, now, vault, domains, messages, pushes, faults, status, aggVars>>

expiry_dedup(w) ==
    /\ pc[w] = "dquery"
    /\ DedupAnswers(DomainSubject(Cur(w), days[w]), now, DedupHours)
    /\ IF AlreadySent(DomainSubject(Cur(w), days[w]), now, DedupHours)
          THEN NextDomain(w)
          ELSE pc' = [pc EXCEPT ![w] = "dpush"] /\ UNCHANGED todo
    /\ UNCHANGED <<db, now, vault, domains, messages, pushes, faults, status, days,
                   examined, failed, aggVars>>

expiry_push(w) ==
    /\ pc[w] = "dpush"
    /\ pushes' = [pushes EXCEPT ![DomainSubject(Cur(w), days[w])] = @ + 1]
    /\ pc' = [pc EXCEPT ![w] = "dinsert"]
    /\ UNCHANGED <<db, now, vault, domains, messages, faults, todo, status, days,
                   examined, failed, aggVars>>

expiry_insert(w) ==
    /\ pc[w] = "dinsert"
    /\ messages' = messages \cup
           {NewMessage(DomainSubject(Cur(w), days[w]), AlertType(days[w]),
                       "Expires in", days[w], now)}
    /\ NextDomain(w)
    /\ UNCHANGED <<db, now, vault, domains, pushes, faults, status, days, examined, failed, aggVars>>

\* a document-store call inside the try of section 2 raises: `except
\* Exception` logs it and the loop goes on with the next domain
expiry_store_error(w) ==
    /\ pc[w] \in {"dquery", "dpush", "dinsert"}
    /\ faults < MaxFaults
    /\ faults' = faults + 1
    /\ NextDomain(w)
    /\ UNCHANGED <<db, now, vault, domains, messages, pushes, status, days, examined, failed,
                   aggVars>>

\* the job function returns (or its exception reaches the scheduler); the
\* worker is free for the next run
job_return(w) ==
    /\ pc[w] \in {"done", "aborted"}
    /\ pc' = [pc EXCEPT ![w] = "idle"]
    /\ todo' = [todo EXCEPT ![w] = <<>>]
    /\ status' = [status EXCEPT ![w] = "unknown"]
    /\ days' = [days EXCEPT ![w] = 0]
    /\ examined' = [examined EXCEPT ![w] = {}]
    /\ failed' = [failed EXCEPT ![w] = {}]
    /\ scanned' = [scanned EXCEPT ![w] = <<>>]
    /\ ref' = [ref EXCEPT ![w] = 0]
    /\ result' = [result EXCEPT ![w] = {}]
    /\ age' = [age EXCEPT ![w] = {}]
    /\ UNCHANGED <<db, now, vault, domains, messages, pushes, faults, events,
                   analytics_summary>>

----------------------------------------------------------------------------
(* vault_run_checks: GET /vault/checks *)

\* the three service probes ran; failures = names found offline or degraded
vault_run_checks(w) ==
    /\ pc[w] = "idle"
    /\ \E failures \in BOOLEAN :
           pc' = [pc EXCEPT ![w] = IF failures THEN "cquery" ELSE "done"]
    /\ examined' = [examined EXCEPT ![w] = {}]
    /\ failed' = [failed EXCEPT ![w] = {}]
    /\ UNCHANGED <<db, now, vault, domains, messages, pushes, faults, todo, status,
                   days, aggVars>>

\* threshold = datetime.now() - timedelta(hours=1); already_sent
checks_dedup(w) ==
    /\ pc[w] = "cquery"
    /\ DedupAnswers(HealthSubject, now, ChecksHours)
    /\ pc' = [pc EXCEPT ![w] =
                 IF AlreadySent(HealthSubject, now, ChecksHours)
                    THEN "done" ELSE "cpush"]
    /\ UNCHANGED <<db, now, vault, domains, messages, pushes, faults, todo, status,
                   days, examined, failed, aggVars>>

checks_push(w) ==
    /\ pc[w] = "cpush"
    /\ pushes' = [pushes EXCEPT ![HealthSubject] = @ + 1]
    /\ pc' = [pc EXCEPT ![w] = "cinsert"]
    /\ UNCHANGED <<db, now, vault, domains, messages, faults, todo, status, days,
                   examined, failed, aggVars>>

checks_insert(w) ==
    /\ pc[w] = "cinsert"
    /\ messages' = messages \cup
           {NewMessage(HealthSubject, "critical", "Services failing", 0, now)}
    /\ pc' = [pc EXCEPT ![w] = "done"]
    /\ UNCHANGED <<db, now, vault, domains, pushes, faults, todo, status, days,
                   examined, failed, aggVars>>

\* a document-store call of the request raises: the request fails
checks_store_error(w) ==
    /\ pc[w] \in {"cquery", "cpush", "cinsert"}
    /\ faults < MaxFaults
    /\ faults' = faults + 1
    /\ pc' = [pc EXCEPT ![w] = "aborted"]
    /\ UNCHANGED <<db, now, vault, domains, messages, pushes, todo, status, days,
                   examined, failed, aggVars>>

ChecksStep(w) ==
    \/ checks_dedup(w) \/ checks_push(w) \/ checks_insert(w)
    \/ checks_store_error(w)

\* time passes, up to the next instant of observation
Tick(hours) ==
    \E h \in hours :
        /\ h * 60 > now
        /\ now' = h * 60
        /\ UNCHANGED <<db, vault, domains, messages, pushes, faults, pc, todo,
                       status, days, examined, failed, aggVars>>

HealthStep(w) ==
    \/ health_probe(w) \/ health_update(w) \/ health_dedup(w)
    \/ health_push(w) \/ health_insert(w) \/ health_store_error(w)
    \/ expiry_scan(w) \/ expiry_parse(w) \/ expiry_dedup(w)
    \/ expiry_push(w) \/ expiry_insert(w) \/ expiry_store_error(w)
    \/ job_return(w)

AllIdle == \A w \in Workers : pc[w] = "idle"

\* health/expiry cycles run one at a time
NextSeq ==
    \/ Tick(ClockHours)
    \/ AllIdle /\ check_services_health("w1")
    \/ HealthStep("w1")

SpecSeq == Init /\ [][NextSeq]_vars

\* runs of the job overlap (two scheduler processes), and so do requests to
\* /vault/checks
NextConc ==
    \/ Tick(ConcClockHours)
    \/ \E w \in Workers :
           \/ check_services_health(w) \/ HealthStep(w)
           \/ vault_run_checks(w) \/ ChecksStep(w)

SpecConc == InitConc /\ [][NextConc]_vars

----------------------------------------------------------------------------
(* routes/tools.py, routes/api.py: the other writers of a vault record *)

\* POST /vault/sync starts and reads the deployments of the vault
vault_sync(w) ==
    /\ pc[w] = "idle"
    /\ todo' = [todo EXCEPT ![w] = SeqOf(EndpointOrder, DOMAIN vault)]
    /\ pc' = [pc EXCEPT ![w] = IF DOMAIN vault = {} THEN "done" ELSE "sprobe"]
    /\ examined' = [examined EXCEPT ![w] = {}]
    /\ failed' = [failed EXCEPT ![w] = {}]
    /\ UNCHANGED <<db, now, vault, domains, messages, pushes, faults, status, days,
                   aggVars>>

\* a probe that raised leaves the status undetermined
SyncStatusUnknown(outcome) ==
    IF outcome = "ok" THEN "online"
    ELSE IF outcome = "exception" THEN "unknown" ELSE "offline"

\* status = 'online' if requests.get(url, timeout=5).status_code == 200
\* else 'offline'; except: status = 'offline'
SyncStatus(outcome) == IF outcome = "ok" THEN "online" ELSE "offline"

sync_probe(w) ==
    /\ pc[w] = "sprobe"
    /\ \E outcome \in {"ok", "http_other", "exception"} :
           /\ status' = [status EXCEPT ![w] = SyncStatus(outcome)]
           /\ failed' = [failed EXCEPT ![w] =
                            IF outcome = "exception" THEN @ \cup {Cur(w)} ELSE @]
    /\ examined' = [examined EXCEPT ![w] = @ \cup {Cur(w)}]
    /\ pc' = [pc EXCEPT ![w] = "supdate"]
    /\ UNCHANGED <<db, now, vault, domains, messages, pushes, faults, todo, days,
                   aggVars>>

\* the next deployment of the sync, or the response
NextSynced(w) ==
    /\ todo' = [todo EXCEPT ![w] = Tail(@)]
    /\ pc' = [pc EXCEPT ![w] = IF Len(todo[w]) > 1 THEN "sprobe" ELSE "done"]

\* vault.document(id).update({'last_status': status, 'last_check': now})
sync_update(w) ==
    /\ pc[w] = "supdate"
    /\ vault' = [vault EXCEPT ![Cur(w)] =
                    [last_status |-> status[w], last_check |-> {now}]]
    /\ NextSynced(w)
    /\ UNCHANGED <<db, now, domains, messages, pushes, faults, status, days,
                   examined, failed, aggVars>>

\* the update raises: the request ends with an error response
sync_store_error(w) ==
    /\ pc[w] = "supdate"
    /\ faults < MaxFaults
    /\ faults' = faults + 1
    /\ pc' = [pc EXCEPT ![w] = "aborted"]
    /\ UNCHANGED <<db, now, vault, domains, messages, pushes, todo, status, days,
                   examined, failed, aggVars>>

SyncStep(w) ==
    \/ vault_sync(w)
    \/ sync_probe(w)
    \/ sync_update(w)
    \/ sync_store_error(w)
    \/ job_return(w)

\* the values a posted last_status field or a backup document can carry;
\* "unknown" stands for a record without the field
PostedStatus == {"unknown", "online", "offline", "archived"}

\* POST /vault/edit/<item_id> with a form that carries a last_status
\* field: document(item_id).update(request.form.to_dict())
vault_edit(e, value) ==
    /\ e \in DOMAIN vault
    /\ vault[e].last_status # value
    /\ vault' = [vault EXCEPT ![e].last_status = value]
    /\ UNCHANGED <<db, now, domains, messages, pushes, faults, pc, todo, status,
                   days, examined, failed, aggVars>>

\* POST /api/restore: document(doc_id).set(doc_data) for each vault
\* document of the uploaded backup; last_check is {} when the backup
\* document has none
restore_data(e, value, checked) ==
    /\ e \in DOMAIN vault
    /\ vault[e] # [last_status |-> value, last_check |-> checked]
    /\ vault' = [vault EXCEPT ![e] =
                    [last_status |-> value, last_check |-> checked]]
    /\ UNCHANGED <<db, now, domains, messages, pushes, faults, pc, todo, status,
                   days, examined, failed, aggVars>>

\* the scheduled job on w1, manual syncs on w2, and the admin's edits and
\* restores
NextVault ==
    \/ Tick(ConcClockHours)
    \/ check_services_health("w1")
    \/ HealthStep("w1")
    \/ SyncStep("w2")
    \/ \E e \in Endpoints, value \in PostedStatus : vault_edit(e, value)
    \/ \E e \in Endpoints, value \in PostedStatus, checked \in {{}, {0}} :
           restore_data(e, value, checked)

SpecVault == InitConc /\ [][NextVault]_vars

----------------------------------------------------------------------------
(* routes/api.py, routes/tools.py: the other writers of collection         *)
(* 'messages'                                                              *)

\* the instants, in hours, of the inbox scenarios
InboxClockHours == {0, 23, 25}
\* messages in the collection that did not come from the monitor
MaxPosted == 1
\* an alert is deleted only while its subject has had fewer pushes than this
MaxPushes == 2

\* data.get('subject', 'New Portfolio Lead')
LeadSubject == [kind |-> "lead", name |-> "visitor"]

\* the subjects a request may carry: free text, here the default and the
\* subjects the monitor uses for the documents that exist
PostableSubjects ==
    {LeadSubject}
        \cup {OutageSubject(e) : e \in DOMAIN vault}
        \cup {[kind |-> k, name |-> d] :
                 k \in {"domain_critical", "domain_warning"},
                 d \in DOMAIN domains}

Posted == {m \in messages : m.name # "System Monitor"}

\* keeps the number of alerts raised again after a deletion bounded
MayDelete(m) ==
    IF m \in Posted THEN TRUE ELSE pushes[m.subject] < MaxPushes

\* the document a request adds to collection 'messages'
PostedMessage(sender, subject, system, atype, t) ==
    LET base == [name |-> sender, subject |-> subject,
                 message |-> [text |-> "posted", days |-> 0], ts |-> t,
                 ts_native |-> TRUE, is_system |-> system,
                 alert_type |-> atype]
        same == {m \in messages : \A f \in DOMAIN base : m[f] = base[f]}
        free == CHOOSE n \in 0..Cardinality(same) :
                    \A m \in same : m.copy # n
    IN  base @@ [is_read |-> FALSE, copy |-> free]

\* POST /api/contact, open to any visitor: the subject is the caller's
api_contact(subject) ==
    /\ Cardinality(Posted) < MaxPosted
    /\ messages' = messages \cup
           {PostedMessage("Anonymous", subject, FALSE, "none", now)}
    /\ UNCHANGED <<db, now, vault, domains, pushes, faults, pc, todo, status,
                   days, examined, failed, aggVars>>

\* POST /api/push/send by the admin: the push goes out and is logged as a
\* message whose subject is the title
push_send(title) ==
    /\ Cardinality(Posted) < MaxPosted
    /\ messages' = messages \cup
           {PostedMessage("System Admin", title, TRUE, "info", now)}
    /\ UNCHANGED <<db, now, vault, domains, pushes, faults, pc, todo, status,
                   days, examined, failed, aggVars>>

\* POST /messages/read/<msg_id>: update({'is_read': not is_read})
message_toggle_read(m) ==
    /\ m \in messages
    /\ messages' = (messages \ {m}) \cup {[m EXCEPT !.is_read = ~ @]}
    /\ UNCHANGED <<db, now, vault, domains, pushes, faults, pc, todo, status,
                   days, examined, failed, aggVars>>

\* /api/notifications/dismiss/<msg_id>: DELETE deletes the document, POST
\* marks it as read
dismiss_notification_api(m, method) ==
    /\ m \in messages
    /\ method = "DELETE" => MayDelete(m)
    /\ messages' = IF method = "DELETE" THEN messages \ {m}
                   ELSE (messages \ {m}) \cup {[m EXCEPT !.is_read = TRUE]}
    /\ messages' # messages
    /\ UNCHANGED <<db, now, vault, domains, pushes, faults, pc, todo, status,
                   days, examined, failed, aggVars>>

\* POST /messages/delete
message_delete(m) ==
    /\ m \in messages
    /\ MayDelete(m)
    /\ messages' = messages \ {m}
    /\ UNCHANGED <<db, now, vault, domains, pushes, faults, pc, todo, status,
                   days, examined, failed, aggVars>>

\* health/expiry cycles one at a time, and the requests that write messages
NextInbox ==
    \/ Tick(InboxClockHours)
    \/ AllIdle /\ check_services_health("w1")
    \/ HealthStep("w1")
    \/ \E subject \in PostableSubjects : api_contact(subject)
    \/ \E title \in PostableSubjects : push_send(title)
    \/ \E m \in messages : message_toggle_read(m)
    \/ \E m \in messages, method \in {"POST", "DELETE"} :
           dismiss_notification_api(m, method)
    \/ \E m \in messages : message_delete(m)

SpecInbox == InitConc /\ [][NextInbox]_vars

\* POST /api/restore of a backup made by GET /api/export: the export
\* writes a time value as a string (json.dumps(..., default=str)), and the
\* restore sets the document of the same id to the exported fields
restore_messages(m) ==
    /\ m \in messages
    /\ m.ts_native
    /\ messages' = (messages \ {m}) \cup {[m EXCEPT !.ts_native = FALSE]}
    /\ UNCHANGED <<db, now, vault, domains, pushes, faults, pc, todo, status,
                   days, examined, failed, aggVars>>

\* main.py:143: the timestamp of a message of the query raises; nothing
\* catches it in the liveness loop and the job ends there
health_dedup_error(w) ==
    /\ pc[w] = "query"
    /\ DedupRaises(OutageSubject(Cur(w)))
    /\ pc' = [pc EXCEPT ![w] = "aborted"]
    /\ UNCHANGED <<db, now, vault, domains, messages, pushes, faults, todo,
                   status, days, examined, failed, aggVars>>

\* main.py:179: the same in the expiry loop, inside its try: the except
\* of line 193 logs it and the loop goes on with the next domain
expiry_dedup_error(w) ==
    /\ pc[w] = "dquery"
    /\ DedupRaises(DomainSubject(Cur(w), days[w]))
    /\ failed' = [failed EXCEPT ![w] = @ \cup {Cur(w)}]
    /\ NextDomain(w)
    /\ UNCHANGED <<db, now, vault, domains, messages, pushes, faults, status,
                   days, examined, aggVars>>

\* health/expiry cycles one at a time, and restores of the messages
NextBackup ==
    \/ Tick(InboxClockHours)
    \/ AllIdle /\ check_services_health("w1")
    \/ HealthStep("w1")
    \/ health_dedup_error("w1")
    \/ expiry_dedup_error("w1")
    \/ \E m \in messages : restore_messages(m)

SpecBackup == Init /\ [][NextBackup]_vars

----------------------------------------------------------------------------
(* core/analytics_aggregator.py: pure part of aggregate_analytics          *)

\* a stored timestamp: a native time value ("native"), an ISO-8601 string
\* ("iso"), a string that is no date ("bad"), no value at all ("none"), or
\* a restored value that is neither a string nor a time, such as a JSON
\* number ("number")
Native(t) == [kind |-> "native", t |-> t]

\* lines 43-51: a string goes through datetime.fromisoformat (any failure
\* gives None), the timezone is stripped; the result is {} for None
ParseTimestamp(ts) == IF ts.kind \in {"native", "iso"} THEN {ts.t} ELSE {}

\* lines 50-58: a truthy value that is neither a string nor a time value
\* reaches `timestamp >= month_start`, which raises TypeError
CompareRaises(evs) == \E i \in DOMAIN evs : evs[i].timestamp.kind = "number"

\* the month counted from the minute of the run
MonthStartSliding(t) == t

\* datetime(now.year, now.month, 1), for instants of December and January
MonthStart(t) == IF t >= NewYear THEN NewYear ELSE NewYear - 31 * 1440

\* the first instant of the year that follows
YearStartAhead(t) == NewYear

\* datetime(now.year, 1, 1)
YearStart(t) == IF t >= NewYear THEN NewYear ELSE NewYear - 365 * 1440

\* month_start.strftime('%Y-%m')
PeriodMonth(t) == IF MonthStart(t) = NewYear THEN "Y1-01" ELSE "Y0-12"

\* year_start.year, counted from the year before NewYear
PeriodYear(t) == IF YearStart(t) = NewYear THEN 1 ELSE 0

\* only the views of the current month are counted
CountViewsThisMonth(evs) ==
    Cardinality({i \in DOMAIN evs :
                    \E t \in ParseTimestamp(evs[i].timestamp) :
                        t >= (IF now >= NewYear THEN NewYear
                              ELSE NewYear - 31 * 1440)})

\* total_views = len(all_analytics)
CountViews(evs) == Len(evs)

\* the events whose timestamp parses to a time after `start`
CountSinceStrict(evs, start) ==
    Cardinality({i \in DOMAIN evs :
                    \E t \in ParseTimestamp(evs[i].timestamp) : t > start})

\* the events whose timestamp parses to a time at or after `start`
CountSince(evs, start) ==
    Cardinality({i \in DOMAIN evs :
                    \E t \in ParseTimestamp(evs[i].timestamp) : t >= start})

\* every event with an item_id counts, whatever its type
CountsForAnyType(e, ty) == e.item_id # ""

\* does the event count for an item of type ty?  (item_type == ty and item_id)
CountsFor(e, ty) == e.item_type = ty /\ e.item_id # ""

RECURSIVE FirstSeenIds(_, _)
\* the keys of blog_views / project_views, in insertion order
FirstSeenIds(evs, ty) ==
    IF evs = <<>> THEN <<>>
    ELSE LET front == FirstSeenIds(SubSeq(evs, 1, Len(evs) - 1), ty)
             e == evs[Len(evs)]
         IN  IF CountsFor(e, ty) /\ \A i \in DOMAIN front : front[i] # e.item_id
             THEN Append(front, e.item_id)
             ELSE front

ItemEvents(evs, ty, id) ==
    {i \in DOMAIN evs : CountsFor(evs[i], ty) /\ evs[i].item_id = id}

\* {'id': k, 'title': v['title'], 'views': v['count']}: the title is the
\* one of the last event of the item
ItemEntry(evs, ty, id) ==
    LET idx == ItemEvents(evs, ty, id)
        last == CHOOSE i \in idx : \A j \in idx : j <= i
    IN  [id |-> id, title |-> evs[last].title, views |-> Cardinality(idx)]

\* descending, with entries of equal views in reverse order
SortedByViewsReversed(entries) ==
    LET n == Len(entries)
        Rank(i) == 1 + Cardinality({j \in 1..n :
                          \/ entries[j].views > entries[i].views
                          \/ entries[j].views = entries[i].views /\ j > i})
    IN  [k \in 1..n |-> entries[CHOOSE i \in 1..n : Rank(i) = k]]

\* sorted(entries, key=views, reverse=True): stable, descending
SortedByViews(entries) ==
    LET n == Len(entries)
        Rank(i) == 1 + Cardinality({j \in 1..n :
                          \/ entries[j].views > entries[i].views
                          \/ entries[j].views = entries[i].views /\ j < i})
    IN  [k \in 1..n |-> entries[CHOOSE i \in 1..n : Rank(i) = k]]

Take(s, n) == SubSeq(s, 1, IF Len(s) < n THEN Len(s) ELSE n)

TopContent(evs, ty) ==
    LET ids == FirstSeenIds(evs, ty)
    IN  Take(SortedByViews([k \in DOMAIN ids |-> ItemEntry(evs, ty, ids[k])]),
             TopN)

\* the counts of a summary computed from a scan with the clock read at r
Counts(evs, r) ==
    [total_views |-> CountViews(evs),
     monthly_views |-> CountSince(evs, MonthStart(r)),
     yearly_views |-> CountSince(evs, YearStart(r)),
     top_blogs |-> TopContent(evs, "blog"),
     top_projects |-> TopContent(evs, "project")]

\* the summary dict of lines 82-91, persisted at time t
Summary(evs, r, t) ==
    Counts(evs, r) @@
    [last_updated |-> Native(t),
     period_month |-> PeriodMonth(r),
     period_year |-> PeriodYear(r)]

CountsOf(s) ==
    [total_views |-> s.total_views, monthly_views |-> s.monthly_views,
     yearly_views |-> s.yearly_views, top_blogs |-> s.top_blogs,
     top_projects |-> s.top_projects]

\* document('summary').update(...) of the time and period fields only
PatchDocument(old, new) ==
    IF old = {} THEN {new}
    ELSE {[s EXCEPT !.last_updated = new.last_updated,
                    !.period_month = new.period_month,
                    !.period_year = new.period_year] : s \in old}

\* document('summary').set(summary): the whole record is replaced
SetDocument(old, new) == {new}

\* age <= timedelta(minutes=5)
IsFreshInclusive(a) == a <= FreshMinutes

\* age < timedelta(minutes=5)
IsFresh(a) == a < FreshMinutes

----------------------------------------------------------------------------
(* Initial states of the aggregator scenarios *)

\* documents already in collection 'analytics': a tracked blog view, a
\* view logged without item_type, a restored project view whose timestamp
\* string is no date, each from an earlier month or from this minute
StoredEvents(t) ==
    {[timestamp |-> Native(t), item_type |-> "blog", item_id |-> "b1",
      title |-> "T1"],
     [timestamp |-> Native(NewYear - 40 * 1440), item_type |-> "blog",
      item_id |-> "b2", title |-> "T2"],
     [timestamp |-> [kind |-> "iso", t |-> t], item_type |-> "", item_id |-> "",
      title |-> "T3"],
     [timestamp |-> [kind |-> "bad", t |-> 0], item_type |-> "project",
      item_id |-> "p1", title |-> "T4"]}

EventSeqs(S, n) == UNION {[1..k -> S] : k \in 0..n}

\* a summary persisted `a` minutes ago by a run over the first k events
InitAgg(ages, allowMissing) ==
    /\ db = TRUE
    /\ now = NewYear - MinutesBefore
    /\ InitWorkers
    /\ vault = << >>
    /\ domains = << >>
    /\ messages = {}
    /\ pushes = [s \in AllSubjects |-> 0]
    /\ events \in EventSeqs(StoredEvents(now), MaxEvents)
    /\ \/ allowMissing /\ analytics_summary = {}
       \/ \E a \in ages, k \in 0..Len(events) :
              analytics_summary =
                  {Summary(SubSeq(events, 1, k), now - a, now - a)}

\* the persisted summary is missing or a minute short of stale
InitFresh == InitAgg({FreshMinutes - 1}, TRUE)

\* the persisted summary is missing or stale
InitStale == InitAgg({FreshMinutes, FreshMinutes + 1}, TRUE)

----------------------------------------------------------------------------
(* aggregate_analytics / get_analytics_summary, one store call per step *)

\* GET /dashboard calls get_analytics_summary(); lines 106-107: without a
\* store handle it returns None at once (result[w] is {} while w is idle)
get_analytics_summary(w) ==
    /\ pc[w] = "idle"
    /\ pc' = [pc EXCEPT ![w] = IF db THEN "gs_read" ELSE "done"]
    /\ UNCHANGED <<db, now, vault, domains, messages, pushes, faults, todo, status,
                   days, examined, failed, aggVars>>

\* lines 111-133: read the summary document; return it if fresh, otherwise
\* go on to aggregate_analytics()
gs_read(w) ==
    /\ pc[w] = "gs_read"
    /\ LET fresh == {s \in analytics_summary :
                        \E lu \in ParseTimestamp(s.last_updated) :
                            IsFresh(now - lu)}
       IN  /\ age' = [age EXCEPT ![w] =
                        {now - lu : lu \in UNION {ParseTimestamp(s.last_updated) :
                                                    s \in analytics_summary}}]
           /\ IF fresh # {}
              THEN /\ result' = [result EXCEPT ![w] = fresh]
                   /\ pc' = [pc EXCEPT ![w] = "done"]
              ELSE /\ pc' = [pc EXCEPT ![w] = "scan"]
                   /\ UNCHANGED result
    /\ UNCHANGED <<db, now, vault, domains, messages, pushes, faults, todo, status,
                   days, examined, failed, events, analytics_summary, scanned,
                   ref>>

\* the read raises and the call gives up with None
gs_read_error_returns_none(w) ==
    /\ pc[w] = "gs_read"
    /\ faults < MaxFaults
    /\ faults' = faults + 1
    /\ pc' = [pc EXCEPT ![w] = "done"]
    /\ UNCHANGED <<db, now, vault, domains, messages, pushes, todo, status,
                   days, examined, failed, aggVars>>

\* lines 135-137: the read raises; the except branch aggregates
gs_read_error(w) ==
    /\ pc[w] = "gs_read"
    /\ faults < MaxFaults
    /\ faults' = faults + 1
    /\ pc' = [pc EXCEPT ![w] = "scan"]
    /\ UNCHANGED <<db, now, vault, domains, messages, pushes, todo, status, days,
                   examined, failed, aggVars>>

\* the scheduled job (main.py) calls aggregate_analytics(), or returns at
\* once without a store handle
update_analytics_aggregate(w) ==
    /\ pc[w] = "idle"
    /\ pc' = [pc EXCEPT ![w] = IF db THEN "scan" ELSE "done"]
    /\ UNCHANGED <<db, now, vault, domains, messages, pushes, faults, todo, status,
                   days, examined, failed, aggVars>>

\* lines 18-32: scan the whole collection, read the clock
agg_scan(w) ==
    /\ pc[w] = "scan"
    /\ scanned' = [scanned EXCEPT ![w] = events]
    /\ ref' = [ref EXCEPT ![w] = now]
    /\ pc' = [pc EXCEPT ![w] = "persist"]
    /\ UNCHANGED <<db, now, vault, domains, messages, pushes, faults, todo, status,
                   days, examined, failed, events, analytics_summary, result,
                   age>>

\* the counts are added to those of the record already persisted
BuildSummaryIncremental(w) ==
    LET fresh == Summary(scanned[w], ref[w], now)
        prior == IF analytics_summary = {} THEN 0
                 ELSE (CHOOSE s \in analytics_summary : TRUE).total_views
    IN  [fresh EXCEPT !.total_views = @ + prior]

\* lines 21-91: the summary of this run's scan
BuildSummary(w) == Summary(scanned[w], ref[w], now)

\* lines 35-96: count, build the summary, write it, return it; an
\* exception raised by the loop is caught at line 98 and the call returns
\* None without writing
agg_persist(w) ==
    /\ pc[w] = "persist"
    /\ IF CompareRaises(scanned[w])
          THEN /\ result' = [result EXCEPT ![w] = {}]
               /\ UNCHANGED analytics_summary
          ELSE LET summary == BuildSummary(w)
               IN  /\ analytics_summary' = SetDocument(analytics_summary, summary)
                   /\ result' = [result EXCEPT ![w] = {summary}]
    /\ pc' = [pc EXCEPT ![w] = "done"]
    /\ UNCHANGED <<db, now, vault, domains, messages, pushes, faults, todo, status,
                   days, examined, failed, events, scanned, ref, age>>

\* the exception of the store call leaves aggregate_analytics
agg_error_propagates(w) ==
    /\ pc[w] \in {"scan", "persist"}
    /\ faults < MaxFaults
    /\ faults' = faults + 1
    /\ pc' = [pc EXCEPT ![w] = "aborted"]
    /\ UNCHANGED <<db, now, vault, domains, messages, pushes, todo, status, days,
                   examined, failed, events, analytics_summary, scanned, ref,
                   result, age>>

\* lines 98-100: the scan or the write raises; the call returns None
agg_error(w) ==
    /\ pc[w] \in {"scan", "persist"}
    /\ faults < MaxFaults
    /\ faults' = faults + 1
    /\ result' = [result EXCEPT ![w] = {}]
    /\ pc' = [pc EXCEPT ![w] = "done"]
    /\ UNCHANGED <<db, now, vault, domains, messages, pushes, todo, status, days,
                   examined, failed, events, analytics_summary, scanned, ref,
                   age>>

\* a view is recorded: track_view, POST /api/blog/<id>/view, or a restore
AddEvent ==
    /\ Len(events) < MaxEvents
    /\ \E e \in StoredEvents(now) : events' = Append(events, e)
    /\ UNCHANGED <<db, now, vault, domains, messages, pushes, faults, pc, todo,
                   status, days, examined, failed, analytics_summary, scanned,
                   ref, result, age>>

\* a minute passes
TickMinute ==
    /\ now < NewYear + MinutesAfter
    /\ now' = now + 1
    /\ UNCHANGED <<db, vault, domains, messages, pushes, faults, pc, todo, status,
                   days, examined, failed, aggVars>>

AggStep(w) ==
    \/ get_analytics_summary(w)
    \/ gs_read(w)
    \/ gs_read_error(w)
    \/ update_analytics_aggregate(w)
    \/ agg_scan(w)
    \/ agg_persist(w)
    \/ agg_error(w)
    \/ job_return(w)

\* dashboard requests and the scheduled job interleave while views arrive
NextAgg ==
    \/ TickMinute
    \/ AddEvent
    \/ \E w \in Workers : AggStep(w)

SpecAgg == InitFresh /\ [][NextAgg]_vars

\* calls one after the other while views arrive: w1 runs first and keeps
\* what it returned, then w2 runs
NextRuns ==
    \/ TickMinute
    \/ AddEvent
    \/ pc["w2"] = "idle" /\ AggStep("w1")
    \/ pc["w1"] = "done" /\ AggStep("w2")

SpecRuns == InitFresh /\ [][NextRuns]_vars

\* the views of n items of type ty, item k viewed c[k] times: a first view
\* of each item in first-seen order, then the second views, and so on; the
\* r-th view of an item carries the r-th title
RankedEvents(n, c, ty, t) ==
    LET slots == [k \in 1..(n * MaxViews) |->
                     [round |-> ((k - 1) \div n) + 1, item |-> ((k - 1) % n) + 1]]
        viewed == SelectSeq(slots, LAMBDA x : c[x.item] >= x.round)
    IN  [k \in DOMAIN viewed |->
            [timestamp |-> Native(t), item_type |-> ty,
             item_id |-> ItemOrder[viewed[k].item],
             title |-> TitleOrder[viewed[k].round]]]

\* no summary yet, and a collection of ranked views
InitTop ==
    /\ db = TRUE
    /\ now = NewYear - MinutesBefore
    /\ InitWorkers
    /\ vault = << >>
    /\ domains = << >>
    /\ messages = {}
    /\ pushes = [s \in AllSubjects |-> 0]
    /\ analytics_summary = {}
    /\ \E n \in 0..MaxItems, ty \in {"blog", "project"} :
           \E c \in [1..n -> 1..MaxViews] :
               events = RankedEvents(n, c, ty, now)

\* one caller at a time aggregates the ranked views
NextTop == AggStep("w1")

SpecTop == InitTop /\ [][NextTop]_vars

\* views of one item id under both ranked types and two titles, views
\* without an item_id, and a view of a type that is not ranked
MixedEvents(t) ==
    {[timestamp |-> Native(t), item_type |-> ty, item_id |-> "x", title |-> ti] :
        ty \in {"blog", "project"}, ti \in {"T1", "T2"}}
    \cup {[timestamp |-> Native(t), item_type |-> ty, item_id |-> "",
           title |-> "T1"] : ty \in {"blog", "project"}}
    \cup {[timestamp |-> Native(t), item_type |-> "download", item_id |-> "x",
           title |-> "T1"]}

\* no summary yet, and a collection of mixed views
InitMixed ==
    /\ db = TRUE
    /\ now = NewYear - MinutesBefore
    /\ InitWorkers
    /\ vault = << >>
    /\ domains = << >>
    /\ messages = {}
    /\ pushes = [s \in AllSubjects |-> 0]
    /\ analytics_summary = {}
    /\ events \in EventSeqs(MixedEvents(now), MaxMixed)

SpecMixed == InitMixed /\ [][NextTop]_vars

\* documents of a restored backup: a time value, its exported string, a
\* string that is no date, no timestamp, a number
RestoredEvents(t) ==
    {[timestamp |-> ts, item_type |-> "blog", item_id |-> "b1", title |-> "T1"] :
        ts \in {Native(t), [kind |-> "iso", t |-> t], [kind |-> "bad", t |-> 0],
                [kind |-> "none", t |-> 0], [kind |-> "number", t |-> 0]}}

\* a restored collection, and either no summary or the stale summary of
\* the collection when it was still empty
InitRestored ==
    /\ db = TRUE
    /\ now = NewYear - MinutesBefore
    /\ InitWorkers
    /\ vault = << >>
    /\ domains = << >>
    /\ messages = {}
    /\ pushes = [s \in AllSubjects |-> 0]
    /\ \/ analytics_summary = {}
       \/ analytics_summary =
              {Summary(<< >>, now - FreshMinutes, now - FreshMinutes)}
    /\ events \in EventSeqs(RestoredEvents(now), MaxEvents)

SpecRestored == InitRestored /\ [][NextTop]_vars

\* the same during a stale window in which no view arrives
NextStale ==
    \/ TickMinute
    \/ \E w \in Workers : AggStep(w)

SpecStale == InitStale /\ [][NextStale]_vars

----------------------------------------------------------------------------
(* routes/dashboard.py: dashboard_home, up to the summary values *)

\* the values last_updated can carry in a persisted summary document
SummaryStamps(t) ==
    {Native(t - (FreshMinutes - 1)), Native(t - FreshMinutes),
     [kind |-> "iso", t |-> t - (FreshMinutes - 1)],
     [kind |-> "bad", t |-> 0], [kind |-> "none", t |-> 0],
     [kind |-> "number", t |-> 0]}

\* the store handle is present or absent; with a handle, a restored
\* collection and no summary or a summary of the empty collection
InitDash ==
    /\ db \in BOOLEAN
    /\ now = NewYear - MinutesBefore
    /\ InitWorkers
    /\ vault = << >>
    /\ domains = << >>
    /\ messages = {}
    /\ pushes = [s \in AllSubjects |-> 0]
    /\ IF db
          THEN /\ events \in EventSeqs(RestoredEvents(now), MaxEvents)
               /\ \/ analytics_summary = {}
                  \/ \E ts \in SummaryStamps(now) :
                         analytics_summary =
                             {[Summary(<< >>, now - FreshMinutes,
                                       now - FreshMinutes)
                                  EXCEPT !.last_updated = ts]}
          ELSE events = << >> /\ analytics_summary = {}

\* lines 17-25: with a summary its counts are shown; without one the
\* total is counted in the store when there is a handle, and is 0 otherwise
dash_summary(w) ==
    /\ pc[w] = "done"
    /\ pc' = [pc EXCEPT ![w] =
                 IF result[w] # {} \/ ~db THEN "rendered" ELSE "count"]
    /\ UNCHANGED <<db, now, vault, domains, messages, pushes, faults, todo,
                   status, days, examined, failed, aggVars>>

\* line 23: collection('analytics').count().get()
dash_count(w) ==
    /\ pc[w] = "count"
    /\ pc' = [pc EXCEPT ![w] = "rendered"]
    /\ UNCHANGED <<db, now, vault, domains, messages, pushes, faults, todo,
                   status, days, examined, failed, aggVars>>

\* the count query raises: nothing in dashboard_home catches it and the
\* request ends with an error page
dash_count_error(w) ==
    /\ pc[w] = "count"
    /\ faults < MaxFaults
    /\ faults' = faults + 1
    /\ pc' = [pc EXCEPT ![w] = "error_page"]
    /\ UNCHANGED <<db, now, vault, domains, messages, pushes, todo, status,
                   days, examined, failed, aggVars>>

\* the response is sent
dash_return(w) ==
    /\ pc[w] \in {"rendered", "error_page"}
    /\ pc' = [pc EXCEPT ![w] = "idle"]
    /\ scanned' = [scanned EXCEPT ![w] = <<>>]
    /\ ref' = [ref EXCEPT ![w] = 0]
    /\ result' = [result EXCEPT ![w] = {}]
    /\ age' = [age EXCEPT ![w] = {}]
    /\ UNCHANGED <<db, now, vault, domains, messages, pushes, faults, todo,
                   status, days, examined, failed, events, analytics_summary>>

DashStep(w) ==
    \/ get_analytics_summary(w)
    \/ gs_read(w)
    \/ gs_read_error(w)
    \/ agg_scan(w)
    \/ agg_persist(w)
    \/ agg_error(w)
    \/ dash_summary(w)
    \/ dash_count(w)
    \/ dash_count_error(w)
    \/ dash_return(w)

\* dashboard requests, one at a time
NextDash == DashStep("w1")

SpecDash == InitDash /\ [][NextDash]_vars

----------------------------------------------------------------------------
(* Properties of the monitor *)

\* worker w takes a step of its job
Stepped(w) == pc'[w] # pc[w] \/ todo'[w] # todo[w]

MonitorAlerts == {m \in messages : m.is_system /\ m.name = "System Monitor"}

\* C1: with cycles run one at a time, no two alerts of the monitor with the
\* same subject have timestamps less than 24 hours apart.
C1_NoRepeatWithinWindow ==
    \A m1, m2 \in MonitorAlerts :
        (m1 # m2 /\ m1.subject = m2.subject)
            => (m1.ts - m2.ts >= 24 * 60 \/ m2.ts - m1.ts >= 24 * 60)

\* an alert was raised again for a subject once the window had passed
C1_Witness ==
    \E m1, m2 \in MonitorAlerts :
        m1.subject = m2.subject /\ m2.ts - m1.ts >= 24 * 60

\* the dedup window of a subject, in minutes
WindowOf(s) == IF s = HealthSubject THEN 60 ELSE 24 * 60

\* C2: with writers that overlap, two of them never both find no recent alert
\* for a subject and both insert one: no two alerts with the same subject lie
\* closer together than the dedup window of that subject.
C2_DedupSerialized ==
    \A m1, m2 \in MonitorAlerts :
        (m1 # m2 /\ m1.subject = m2.subject)
            => \/ m1.ts - m2.ts >= WindowOf(m1.subject)
               \/ m2.ts - m1.ts >= WindowOf(m1.subject)

SubjectAges(s) == {now - m.ts : m \in {x \in messages : x.subject = s}}

\* C3: an endpoint is seen offline.  If a message with its outage subject is
\* younger than 24 h, the cycle passes on without a message or a push; if every
\* such message is older than 24 h, the push is sent and the message inserted.
C3_DedupWindowBoundary ==
    [][\A w \in Workers :
         LET s == OutageSubject(Cur(w))
         IN  /\ (pc[w] = "query" /\ Stepped(w) /\ faults' = faults) =>
                    /\ (\E a \in SubjectAges(s) : a < 24 * 60) =>
                           /\ pc'[w] \in {"probe", "domains"}
                           /\ messages' = messages /\ pushes' = pushes
                    /\ (SubjectAges(s) # {}
                          /\ \A a \in SubjectAges(s) : a > 24 * 60) =>
                           pc'[w] = "push"
             /\ (pc[w] = "push" /\ Stepped(w) /\ faults' = faults) =>
                    /\ pushes'[s] = pushes[s] + 1
                    /\ pc'[w] = "insert"
             /\ (pc[w] = "insert" /\ Stepped(w) /\ faults' = faults) =>
                    \E m \in messages' \ messages :
                        m.subject = s /\ m.ts = now /\ m.is_system
      ]_vars

\* a run has ended in which an outage alert 25 h old did not stop the second
\* alert of one endpoint, and an alert 2 h old stopped that of another
C3_Witness ==
    /\ \E w \in Workers : pc[w] = "done"
    /\ \E m1, m2 \in MonitorAlerts :
           /\ m1.subject.kind = "outage" /\ m2.subject = m1.subject
           /\ m2.ts - m1.ts = 25 * 60 /\ m2.ts = now
           /\ pushes[m1.subject] = 2
    /\ \E e \in DOMAIN vault :
           /\ vault[e].last_status = "offline" /\ vault[e].last_check = {now}
           /\ pushes[OutageSubject(e)] = 1
           /\ \E m \in MonitorAlerts :
                  m.subject = OutageSubject(e) /\ now - m.ts = 2 * 60

\* C7: a domain with a parseable date: more than 30 days left, nothing is
\* raised; 8..30 days, an alert of type warning goes to the dedup check; 7 days
\* or fewer, one of type critical; the message inserted carries that type.
C7_ExpiryTiering ==
    [][\A w \in Workers :
         /\ (pc[w] = "parse" /\ Stepped(w) /\ domains[Cur(w)].kind = "date") =>
                /\ (days'[w] > 30) =>
                       /\ pc'[w] \in {"parse", "done"} /\ todo'[w] = Tail(todo[w])
                       /\ messages' = messages /\ pushes' = pushes
                /\ (days'[w] <= 30) => pc'[w] = "dquery"
         /\ (pc[w] = "dinsert" /\ Stepped(w) /\ faults' = faults) =>
                \E m \in messages' \ messages :
                    /\ m.subject.name = Cur(w) /\ m.message.days = days[w]
                    /\ (7 < days[w] /\ days[w] <= 30) =>
                           (m.alert_type = "warning"
                              /\ m.subject.kind = "domain_warning")
                    /\ (days[w] <= 7) =>
                           (m.alert_type = "critical"
                              /\ m.subject.kind = "domain_critical")
      ]_vars

\* the boundaries 30, 8 and 7 all raised their alert
C7_Witness ==
    /\ \E m \in messages :
           m.message.days = 30 /\ m.alert_type = "warning"
    /\ \E m \in messages :
           m.message.days = 8 /\ m.alert_type = "warning"
    /\ \E m \in messages :
           m.message.days = 7 /\ m.alert_type = "critical"

\* the expiry date of the domain the worker is at is the date of today
ExpiresToday(w) == domains[Cur(w)].day = now \div 1440

\* C8, as stated: the day count of a domain that expires today is 1.
C8_TodayReadsAsOne ==
    [][\A w \in Workers :
         (pc[w] = "parse" /\ Stepped(w) /\ domains[Cur(w)].kind = "date"
            /\ ExpiresToday(w)) => days'[w] = 1
      ]_vars

\* C8, amended: days = (expiry_date - now).days + 1 with .days the floor: the
\* date minus today's date, and one more only at the instant of midnight; so
\* an expiry dated today counts 0 during the day and one dated tomorrow 1.
C8_DaysRemaining ==
    [][\A w \in Workers :
         (pc[w] = "parse" /\ Stepped(w) /\ domains[Cur(w)].kind = "date") =>
             LET today == now \div 1440
                 day == domains[Cur(w)].day
             IN  days'[w] = IF now % 1440 = 0 THEN day - today + 1
                                              ELSE day - today
      ]_vars

\* a cycle run during the day of expiry counted 0 days
C8_Witness ==
    \E w \in Workers :
        /\ pc[w] = "dquery" /\ days[w] = 0
        /\ ExpiresToday(w) /\ now % 1440 # 0

AllDocs == DOMAIN vault \cup DOMAIN domains

\* C9: a network error of the probe or an unparseable date never ends the run
\* (only a document-store error does); the endpoint is written offline, the
\* domain raises nothing, and a run that ends has gone through every endpoint
\* and every domain.
C9_FailureIsolation ==
    /\ [][\A w \in Workers :
            /\ (pc'[w] = "aborted" /\ pc[w] # "aborted") => faults' = faults + 1
            /\ (pc[w] = "probe" /\ Stepped(w) /\ failed'[w] # failed[w]) =>
                   (pc'[w] = "update" /\ status'[w] = "offline")
            /\ (pc[w] = "parse" /\ Stepped(w) /\ failed'[w] # failed[w]) =>
                   /\ pc'[w] \in {"parse", "done"}
                   /\ messages' = messages /\ pushes' = pushes
         ]_vars
    /\ [](\A w \in Workers : pc[w] = "done" => examined[w] = AllDocs)

\* a run ended after a failure of its first item and went through both items
C9_Witness ==
    \E w \in Workers :
        /\ pc[w] = "done"
        /\ failed[w] # {}
        /\ failed[w] \subseteq {EndpointOrder[1], DomainOrder[1]}
        /\ Cardinality(examined[w]) = 2

\* C10: the expiry probe goes through every domain whatever happened in the
\* liveness probe: a run that ended, normally or by an error raised while the
\* liveness loop was at an endpoint, has examined every domain.
C10_ExpiryIndependent ==
    \A w \in Workers :
        (pc[w] = "done" \/ (pc[w] = "aborted" /\ todo[w] # <<>>))
            => DOMAIN domains \subseteq examined[w]

----------------------------------------------------------------------------
(* Properties of the endpoint record *)

OutageSubjects == {OutageSubject(e) : e \in Endpoints}

\* the outage alerts and pushes that exist
OutageAlerts == {m \in messages : m.subject \in OutageSubjects}

\* C11: a liveness cycle takes every probed endpoint to the write of
\* {last_status: observed status, last_check: now}, whatever the stored
\* status was; a probe that raised reads as offline; the write precedes
\* the alert decision, and an outage alert or push is made only for the
\* endpoint just written as offline, after the dedup query.
C11_StatusPersisted ==
    [][\A w \in Workers :
          /\ (pc[w] = "probe" /\ pc'[w] # "probe") =>
                 /\ pc'[w] = "update"
                 /\ status'[w] \in {"online", "offline"}
                 /\ Cur(w) \in failed'[w] => status'[w] = "offline"
          /\ (pc[w] = "update" /\ pc'[w] \notin {"update", "aborted"}) =>
                 /\ vault'[Cur(w)] =
                        [last_status |-> status[w], last_check |-> {now}]
                 /\ \A e \in DOMAIN vault \ {Cur(w)} : vault'[e] = vault[e]
                 /\ pc'[w] = "query" <=> status[w] = "offline"
                 /\ UNCHANGED <<messages, pushes>>
          /\ (pc[w] \in {"probe", "update", "query", "push", "insert"}
                 /\ Stepped(w)
                 /\ (OutageAlerts' # OutageAlerts
                       \/ \E s \in OutageSubjects : pushes'[s] # pushes[s])) =>
                 /\ pc[w] \in {"push", "insert"}
                 /\ status[w] = "offline"
                 /\ vault[Cur(w)].last_status = "offline"
                 /\ \A s \in OutageSubjects \ {OutageSubject(Cur(w))} :
                        pushes'[s] = pushes[s]
                 /\ \A m \in OutageAlerts' \ OutageAlerts :
                        m.subject = OutageSubject(Cur(w))]_vars

\* a later cycle found e1 offline again: the record carries the new
\* last_check before the alert decision is taken, and the endpoint found
\* online was written too
C11_Witness ==
    /\ now > 0
    /\ pc["w1"] = "query"
    /\ DOMAIN vault = {"e1", "e2"}
    /\ Cur("w1") = "e2"
    /\ vault["e2"] = [last_status |-> "offline", last_check |-> {now}]
    /\ vault["e1"] = [last_status |-> "online", last_check |-> {now}]
    /\ \E m \in messages : m.subject = OutageSubject("e2") /\ m.ts = 0

\* a step of worker w that changes the record of endpoint e
WritesRecord(w, e) == Stepped(w) /\ Cur(w) = e /\ vault'[e] # vault[e]

\* C12 as stated: last_status only moves along unknown -> online <->
\* offline, and every change of last_status/last_check is made by the
\* health cycle from a probe result.
C12_OnlyMonitorWrites ==
    [][\A e \in DOMAIN vault :
          vault'[e] # vault[e] =>
              /\ \E w \in Workers : pc[w] = "update" /\ WritesRecord(w, e)
              /\ vault'[e].last_status \in {"online", "offline"}]_vars

\* C12 (amended): the health cycle and the manual sync both write
\* last_status/last_check from a probe result, and what they write is
\* online or offline with last_check = now, never unknown; outside these
\* two, a record changes only by a vault edit or a restore, which write
\* whatever value they are given.
C12_StatusWriters ==
    [][\A e \in DOMAIN vault :
          vault'[e] # vault[e] =>
              \/ \E w \in Workers :
                     /\ pc[w] \in {"update", "supdate"}
                     /\ WritesRecord(w, e)
                     /\ status[w] \in {"online", "offline"}
                     /\ vault'[e] = [last_status |-> status[w],
                                     last_check |-> {now}]
              \/ /\ UNCHANGED <<pc, todo, status>>
                 /\ vault'[e].last_status \in PostedStatus]_vars

\* the manual sync has just written the record of e1 from its own probe
C12_Witness ==
    /\ now > 0
    /\ pc["w2"] = "done" /\ pc["w1"] = "idle"
    /\ examined["w2"] = {"e1"}
    /\ "e1" \in DOMAIN vault
    /\ vault["e1"] = [last_status |-> status["w2"], last_check |-> {now}]

----------------------------------------------------------------------------
(* Properties of the aggregator *)

\* worker w's get_analytics_summary leaves its read of the summary document
GsReadStep(w) == pc[w] = "gs_read" /\ pc'[w] # "gs_read"

\* the ages of the persisted summary at this instant ({} when there is none)
PersistedAges ==
    {now - lu : lu \in UNION {ParseTimestamp(s.last_updated) :
                                 s \in analytics_summary}}

FreshPersisted == \E a \in PersistedAges : a < FreshMinutes

\* worker w's aggregate_analytics returns
AggReturn(w) == pc[w] \in {"scan", "persist"} /\ pc'[w] = "done"

\* aggregate_analytics runs inside the caller and returns its own summary,
\* which is also what it persisted, or None when a store call raised
AggregateReturnsOwnRun ==
    \A w \in Workers :
        /\ pc[w] = "scan" => pc'[w] \in {"scan", "persist", "done"}
        /\ pc[w] = "persist" => pc'[w] \in {"persist", "done"}
        /\ AggReturn(w) =>
               IF faults' = faults
               THEN /\ result'[w] = {Summary(scanned[w], ref[w], now)}
                    /\ analytics_summary' = result'[w]
               ELSE result'[w] = {} /\ UNCHANGED analytics_summary

\* C4 as stated: get_analytics_summary returns the persisted summary
\* without recomputing exactly when a summary is persisted whose
\* last_updated is less than 5 minutes old; otherwise it runs
\* aggregate_analytics and returns that run's result.
C4_CachedExactlyWhenFresh ==
    [][/\ \A w \in Workers :
              GsReadStep(w) =>
                  /\ pc'[w] = "done" <=> FreshPersisted
                  /\ pc'[w] = "done" =>
                         result'[w] = analytics_summary /\ UNCHANGED analytics_summary
                  /\ pc'[w] # "done" => pc'[w] = "scan"
       /\ AggregateReturnsOwnRun]_vars

\* C4 (amended): get_analytics_summary returns the persisted summary
\* without recomputing exactly when its read of the summary document
\* succeeds and finds a summary whose last_updated is less than 5 minutes
\* old; when the age is 5 minutes or more, when no summary is persisted, or
\* when the read raises, it runs aggregate_analytics synchronously and
\* returns that run's result (None when that run fails).
C4_FreshnessThreshold ==
    [][/\ \A w \in Workers :
              GsReadStep(w) =>
                  /\ pc'[w] = "done" <=> (FreshPersisted /\ faults' = faults)
                  /\ pc'[w] = "done" =>
                         result'[w] = analytics_summary /\ UNCHANGED analytics_summary
                  /\ pc'[w] # "done" => pc'[w] = "scan"
       /\ AggregateReturnsOwnRun]_vars

\* one caller was served a summary aged 4 minutes from the cache, another
\* found it aged 5 minutes, recomputed, and returned the new summary
C4_Witness ==
    \E w1, w2 \in Workers :
        /\ pc[w1] = "done" /\ age[w1] = {FreshMinutes - 1}
        /\ \E s \in result[w1] : s.last_updated.t < NewYear - MinutesBefore
        /\ pc[w2] = "done" /\ age[w2] = {FreshMinutes}
        /\ result[w2] = analytics_summary
        /\ \E s \in result[w2] : s.last_updated.t >= NewYear - MinutesBefore

\* the earliest instant at which a summary can have been computed
EarliestRun == NewYear - MinutesBefore - FreshMinutes - 1

\* s is, field for field, the summary one aggregation run builds: a run
\* that scanned the first total_views views with the clock in the month of
\* EarliestRun or in the month of the write
IsRunOutput(s) ==
    /\ s.total_views <= Len(events)
    /\ \E r \in {EarliestRun, s.last_updated.t} :
           s = Summary(SubSeq(events, 1, s.total_views), r, s.last_updated.t)

Observed == analytics_summary \cup UNION {result[w] : w \in Workers}

\* C5: every summary persisted or returned is the complete output of one
\* aggregation run: the write replaces the whole record with the summary
\* the run built, a cached read returns the record as it stands, and so no
\* observed summary mixes fields of two runs.
C5_WholeRecord ==
    /\ [](\A s \in Observed : IsRunOutput(s))
    /\ [][\A w \in Workers :
              /\ (AggReturn(w) /\ faults' = faults) =>
                     /\ analytics_summary' = {Summary(scanned[w], ref[w], now)}
                     /\ result'[w] = analytics_summary'
              /\ (GsReadStep(w) /\ pc'[w] = "done") =>
                     result'[w] = analytics_summary]_vars

\* two runs overlapped: w2 scanned more views than w1 and persisted, then
\* w1 overwrote the record with its own complete summary
C5_Witness ==
    \E w1, w2 \in Workers :
        /\ pc[w1] = "done" /\ pc[w2] = "done"
        /\ result[w1] = analytics_summary
        /\ \E s1 \in result[w1], s2 \in result[w2] :
               /\ s1.total_views < s2.total_views
               /\ s1.monthly_views < s2.monthly_views
               /\ s1.last_updated = s2.last_updated

WindowStart == NewYear - MinutesBefore

\* the callers that have returned a summary
Returned == {w \in Workers : pc[w] = "done" /\ result[w] # {}}

\* the persisted summary is what aggregate_analytics would persist when
\* run alone at some instant of the window
PersistedAsSingleRun ==
    \A s \in analytics_summary :
        s.last_updated.t >= WindowStart =>
            \E r \in WindowStart..now :
                /\ PeriodMonth(r) = s.period_month
                /\ PeriodYear(r) = s.period_year
                /\ CountsOf(s) = Counts(events, r)

Produced(w) == pc[w] = "done" /\ ref[w] # 0 /\ result[w] # {}

\* the timestamp is a time value or a string that reads as one
ValidTimestamp(ts) == ts.kind \in {"native", "iso"}

\* the scanned views of worker w with a valid timestamp at or after t
ViewsSince(w, t) ==
    {i \in DOMAIN scanned[w] :
        ValidTimestamp(scanned[w][i].timestamp) /\ scanned[w][i].timestamp.t >= t}

\* C13: in the summary of a run, total_views is the number of views
\* scanned, monthly_views the number of those with a valid timestamp at or
\* after the first instant of the run's month, yearly_views the same for
\* the run's year; a view of the current month is in both.
C13_Counts ==
    \A w \in Workers :
        Produced(w) =>
            \A s \in result[w] :
                /\ s.total_views = Len(scanned[w])
                /\ s.monthly_views =
                       Cardinality(ViewsSince(w, MonthStart(ref[w])))
                /\ s.yearly_views =
                       Cardinality(ViewsSince(w, YearStart(ref[w])))
                /\ ViewsSince(w, MonthStart(ref[w]))
                       \subseteq ViewsSince(w, YearStart(ref[w]))

\* a run of January counted the view stamped at the first instant of the
\* month in both counters and the view of the year before in neither
C13_Witness ==
    \E w \in Workers :
        /\ Produced(w)
        /\ ref[w] >= NewYear
        /\ \E i, j \in DOMAIN scanned[w] :
               /\ scanned[w][i].timestamp = Native(NewYear)
               /\ scanned[w][j].timestamp = Native(NewYear - 1)
        /\ \E s \in result[w] :
               s.total_views = 2 /\ s.monthly_views = 1 /\ s.yearly_views = 1

\* the position of the first scanned view of item id
FirstSeen(w, ty, id) ==
    CHOOSE i \in DOMAIN scanned[w] :
        /\ scanned[w][i].item_type = ty /\ scanned[w][i].item_id = id
        /\ \A j \in 1..(i - 1) :
               ~(scanned[w][j].item_type = ty /\ scanned[w][j].item_id = id)

\* the items of type ty among the scanned views, with their view counts
RankedIds(w, ty) ==
    {scanned[w][i].item_id : i \in {j \in DOMAIN scanned[w] :
        scanned[w][j].item_type = ty /\ scanned[w][j].item_id # ""}}

ViewCount(w, ty, id) ==
    Cardinality({i \in DOMAIN scanned[w] :
                    scanned[w][i].item_type = ty /\ scanned[w][i].item_id = id})

\* item a ranks before item b: more views, or as many and seen first
RanksBefore(w, ty, a, b) ==
    \/ ViewCount(w, ty, a) > ViewCount(w, ty, b)
    \/ /\ ViewCount(w, ty, a) = ViewCount(w, ty, b)
       /\ FirstSeen(w, ty, a) < FirstSeen(w, ty, b)

\* top is the ranking of the items of type ty, cut after the fifth
IsTopRanking(w, ty, top) ==
    /\ Len(top) = IF Cardinality(RankedIds(w, ty)) < 5
                  THEN Cardinality(RankedIds(w, ty)) ELSE 5
    /\ \A k \in DOMAIN top :
           /\ top[k].id \in RankedIds(w, ty)
           /\ top[k].views = ViewCount(w, ty, top[k].id)
    /\ \A k \in 1..(Len(top) - 1) : RanksBefore(w, ty, top[k].id, top[k + 1].id)
    /\ \A id \in RankedIds(w, ty) \ {top[k].id : k \in DOMAIN top} :
           \A k \in DOMAIN top : RanksBefore(w, ty, top[k].id, id)

\* C14: top_blogs and top_projects hold at most 5 entries, by views
\* descending, ties in first-seen order, and they are exactly the 5 items
\* that rank highest in that order.
C14_TopOrdering ==
    \A w \in Workers :
        Produced(w) =>
            \A s \in result[w] :
                /\ IsTopRanking(w, "blog", s.top_blogs)
                /\ IsTopRanking(w, "project", s.top_projects)

\* views A:2 B:2 C:1 D:3 E:1 F:2 gave D, A, B, F, C: the tie of A, B and
\* F in first-seen order, and of C and E the first-seen one kept
C14_Witness ==
    /\ Produced("w1")
    /\ \E s \in result["w1"] :
           /\ Len(s.top_blogs) = 5
           /\ [k \in 1..5 |-> s.top_blogs[k].id] = <<"D", "A", "B", "F", "C">>
           /\ [k \in 1..5 |-> s.top_blogs[k].views] = <<3, 2, 2, 2, 1>>
           /\ "E" \in RankedIds("w1", "blog")

\* the scanned views of worker w with item_type ty and item_id id
ViewsOfItem(w, ty, id) ==
    {i \in DOMAIN scanned[w] :
        scanned[w][i].item_type = ty /\ scanned[w][i].item_id = id}

\* top lists exactly the items of type ty that have an item_id, each with
\* the number of its views of that type and the title of the last of them
IsMembership(w, ty, top) ==
    /\ {top[k].id : k \in DOMAIN top} =
           {id \in {scanned[w][i].item_id : i \in DOMAIN scanned[w]} :
               id # "" /\ ViewsOfItem(w, ty, id) # {}}
    /\ \A k \in DOMAIN top :
           /\ top[k].views = Cardinality(ViewsOfItem(w, ty, top[k].id))
           /\ \E i \in ViewsOfItem(w, ty, top[k].id) :
                  /\ \A j \in ViewsOfItem(w, ty, top[k].id) : j <= i
                  /\ top[k].title = scanned[w][i].title
    /\ \A k, l \in DOMAIN top : top[k].id = top[l].id => k = l

\* C15: an entry of top_blogs counts the scanned views with item_type
\* blog and its item_id, an entry of top_projects those with item_type
\* project, each list from its own accumulator; views without item_id and
\* views of other types are in neither; the title of an entry is that of
\* the last scanned view of the item.
C15_Membership ==
    \A w \in Workers :
        Produced(w) =>
            \A s \in result[w] :
                /\ IsMembership(w, "blog", s.top_blogs)
                /\ IsMembership(w, "project", s.top_projects)

\* blog x "T1", project x "T1", a blog view without item_id, blog x "T2"
C15_Witness ==
    /\ Produced("w1")
    /\ Len(scanned["w1"]) = 4
    /\ \E i \in 1..4 :
           scanned["w1"][i].item_type = "blog" /\ scanned["w1"][i].item_id = ""
    /\ \E s \in result["w1"] :
           /\ s.top_blogs = <<[id |-> "x", title |-> "T2", views |-> 2]>>
           /\ s.top_projects = <<[id |-> "x", title |-> "T1", views |-> 1]>>

\* the timestamp is missing or is not a time
Malformed(ts) == ts.kind \in {"bad", "none", "number"}

C17_CountOrder ==
    /\ \A w \in Workers :
           Produced(w) =>
               \A s \in result[w] :
                   /\ s.monthly_views <= s.yearly_views
                   /\ s.yearly_views <= s.total_views
                   /\ s.monthly_views <= s.total_views
                   /\ s.total_views <= Len(scanned[w])
    /\ YearStart(now) <= MonthStart(now)

\* a December run over a view of November and a view whose timestamp is
\* no date: none this month, one this year, two in total
C17_Witness ==
    \E w \in Workers :
        /\ Produced(w)
        /\ ref[w] < NewYear
        /\ \E s \in result[w] :
               s.monthly_views = 0 /\ s.yearly_views = 1 /\ s.total_views = 2

\* both instants lie in the same calendar month and year
SamePeriod(a, b) == (a >= NewYear) <=> (b >= NewYear)

\* w1's aggregation run, then w2's, over the same views in the same period
RepeatedRun ==
    /\ Produced("w1") /\ Produced("w2")
    /\ scanned["w1"] = scanned["w2"]
    /\ SamePeriod(ref["w1"], ref["w2"])

\* C18: two aggregation runs in succession, with no view added between
\* them and the same reference month and year, produce summaries that are
\* equal in every field but last_updated.
C18_Idempotent ==
    RepeatedRun =>
        \A s1 \in result["w1"], s2 \in result["w2"] :
            /\ CountsOf(s1) = CountsOf(s2)
            /\ s1.period_month = s2.period_month
            /\ s1.period_year = s2.period_year
            /\ [s1 EXCEPT !.last_updated = s2.last_updated] = s2

\* the second run came a minute after the first, over views that count
\* and rank, and differs from it in last_updated alone
C18_Witness ==
    /\ RepeatedRun
    /\ \E s1 \in result["w1"], s2 \in result["w2"] :
           /\ s1.last_updated.t < s2.last_updated.t
           /\ s1.monthly_views > 0
           /\ s1.total_views > s1.monthly_views
           /\ Len(s1.top_blogs) > 0

\* C19: of two aggregation runs, one after the other, the later one's
\* total_views is at least the earlier one's; views are only ever added
\* between them.
C19_Monotonic ==
    /\ []((Produced("w1") /\ Produced("w2")) =>
             \A s1 \in result["w1"], s2 \in result["w2"] :
                 s1.total_views <= s2.total_views)
    /\ [][Len(events') >= Len(events)
             /\ SubSeq(events', 1, Len(events)) = events]_vars

\* a view without a valid timestamp arrived between the two runs, across
\* the turn of the year: the total went from 1 to 2 while the monthly
\* count fell from 1 to 0
C19_Witness ==
    /\ Produced("w1") /\ Produced("w2")
    /\ ref["w1"] < NewYear /\ ref["w2"] >= NewYear
    /\ \E s1 \in result["w1"], s2 \in result["w2"] :
           /\ s1.total_views = 1 /\ s2.total_views = 2
           /\ s1.monthly_views = 1 /\ s2.monthly_views = 0

\* worker w's aggregate_analytics ends in this step on an exception: a
\* store call raised, or the loop over the scanned views did
AggFails(w) ==
    /\ pc[w] \in {"scan", "persist"}
    /\ pc'[w] # pc[w]
    /\ faults' # faults \/ (pc[w] = "persist" /\ CompareRaises(scanned[w]))

\* C20: an exception in the scan, the computation or the write of
\* aggregate_analytics is caught: the call returns None, nothing
\* propagates to the caller, and the persisted summary is left as it was.
C20_FailureReturnsNull ==
    /\ [][\A w \in Workers :
              AggFails(w) =>
                  /\ pc'[w] = "done"
                  /\ result'[w] = {}
                  /\ UNCHANGED analytics_summary]_vars
    /\ [](\A w \in Workers : pc[w] # "aborted")

\* the write of a run raised: the call returned None and the summary
\* persisted before is still there
C20_Witness ==
    /\ pc["w1"] = "done"
    /\ ref["w1"] # 0
    /\ Len(scanned["w1"]) > 0
    /\ ~CompareRaises(scanned["w1"])
    /\ faults > 0
    /\ result["w1"] = {}
    /\ \E s \in analytics_summary : s.last_updated.t < ref["w1"]

----------------------------------------------------------------------------
(* Properties of the dashboard and of get_analytics_summary *)

\* C21: the dashboard never answers with an error: whenever
\* get_analytics_summary returns None, with the document store failing or
\* not, dashboard_home shows values it can still produce and does not raise.
C21_DashboardNeverRaises == \A w \in Workers : pc[w] # "error_page"

\* worker w's get_analytics_summary returns None in this step
GsReturnsNone(w) ==
    /\ pc[w] \in {"idle", "gs_read", "scan", "persist"}
    /\ pc'[w] = "done"
    /\ result'[w] = {}

\* C30: get_analytics_summary never propagates an exception; a read that
\* raises, and a summary whose last_updated is missing or does not parse,
\* lead to aggregate_analytics; the summary is returned as read only when
\* it is fresh; None is returned only without a store handle or when that
\* aggregate_analytics run fails.
C30_NeverPropagates ==
    [][\A w \in Workers :
          /\ (pc[w] \in {"idle", "gs_read", "scan", "persist"}
                /\ pc'[w] # pc[w]) =>
                 pc'[w] \in {"gs_read", "scan", "persist", "done"}
          /\ (pc[w] = "gs_read" /\ pc'[w] # pc[w]) =>
                 IF faults' = faults /\ PersistedAges # {}
                       /\ \A a \in PersistedAges : IsFresh(a)
                    THEN pc'[w] = "done" /\ result'[w] = analytics_summary
                    ELSE pc'[w] = "scan"
          /\ GsReturnsNone(w) => ((pc[w] = "idle" /\ ~db) \/ AggFails(w))
      ]_vars

\* the read of the summary raised, the call went on to aggregate and
\* returned the summary of that run
C30_Witness ==
    /\ pc["w1"] = "done"
    /\ faults = 1
    /\ ref["w1"] # 0
    /\ result["w1"] # {}
    /\ result["w1"] = analytics_summary

----------------------------------------------------------------------------
(* Further properties of the monitor and of concurrent aggregation *)

\* C22: send_push_notification swallows every failure: a step of the job
\* that is at the push of an alert always goes on to the insert of that
\* alert's message, so the push never ends the cycle and never keeps the
\* message from being persisted.
C22_NotifierSwallows ==
    [][\A w \in Workers :
          /\ (pc[w] = "push" /\ Stepped(w)) => pc'[w] = "insert"
          /\ (pc[w] = "dpush" /\ Stepped(w)) => pc'[w] = "dinsert"]_vars

\* C23: with views only added and aggregation runs interleaved, the
\* total_views of the persisted summary never decreases from one write of
\* the summary to the next.
C23_PersistedTotalMonotonic ==
    [][\A s1 \in analytics_summary, s2 \in analytics_summary' :
          s1.total_views <= s2.total_views]_vars

\* C25: whether an offline observation raises an alert depends on the
\* probe result and on the age of the messages with the same subject
\* alone, not on the last_status stored before: every endpoint observed
\* offline goes to the dedup check, which lets the push and the message
\* through exactly when no message with the subject is younger than 24 h.
C25_AlertIgnoresPreviousStatus ==
    [][\A w \in Workers :
          LET s == OutageSubject(Cur(w))
          IN  /\ (pc[w] = "update" /\ Stepped(w) /\ faults' = faults) =>
                     (pc'[w] = "query" <=> status[w] = "offline")
              /\ (pc[w] = "query" /\ Stepped(w) /\ faults' = faults) =>
                     (pc'[w] = "push" <=>
                          ~ \E m \in messages :
                                m.subject = s /\ now - m.ts < 24 * 60)
              /\ (pc[w] = "push" /\ Stepped(w) /\ faults' = faults) =>
                     (pc'[w] = "insert" /\ pushes'[s] = pushes[s] + 1)
              /\ (pc[w] = "insert" /\ Stepped(w) /\ faults' = faults) =>
                     \E m \in messages' \ messages :
                         m.subject = s /\ m.ts = now]_vars

\* e1 stayed offline and was alerted again once 24 h had passed; e2, alerted
\* 2 h ago, has recovered since and is observed offline once more
C25_Witness ==
    /\ pc["w1"] = "update"
    /\ DOMAIN vault = {"e1", "e2"}
    /\ Cur("w1") = "e2"
    /\ status["w1"] = "offline"
    /\ vault["e2"].last_status = "online"
    /\ \E m \in messages : m.subject = OutageSubject("e2") /\ now - m.ts = 2 * 60
    /\ vault["e1"] = [last_status |-> "offline", last_check |-> {now}]
    /\ \E m1, m2 \in messages :
           /\ m1.subject = OutageSubject("e1") /\ m2.subject = m1.subject
           /\ m2.ts - m1.ts = 24 * 60

\* the expiry alerts of a domain
DomainAlerts(dom) ==
    {m \in MonitorAlerts :
        /\ m.subject.kind \in {"domain_critical", "domain_warning"}
        /\ m.subject.name = dom}

\* the tier of a day count that is due
TierOf(d) == IF d <= 7 THEN "domain_critical" ELSE "domain_warning"

\* C26: the expiry dedup is per domain and per tier: a domain that is due
\* raises its alert exactly when no message of the same domain and the
\* same tier is younger than 24 h, so a warning alert does not hold back
\* the critical one; with cycles one at a time, two alerts of one domain
\* and one tier are at least 24 h apart, and no three alerts of one domain
\* fall within one 24 h window.
C26_PerTierDedup ==
    /\ [][\A w \in Workers :
              (pc[w] = "dquery" /\ Stepped(w) /\ faults' = faults) =>
                  (pc'[w] = "dpush" <=>
                       ~ \E m \in messages :
                             /\ m.subject.name = Cur(w)
                             /\ m.subject.kind = TierOf(days[w])
                             /\ now - m.ts < 24 * 60)]_vars
    /\ [](\A dom \in Domains :
             \A m1, m2 \in DomainAlerts(dom) :
                 (m1 # m2 /\ m1.subject.kind = m2.subject.kind) =>
                     (m1.ts - m2.ts >= 24 * 60 \/ m2.ts - m1.ts >= 24 * 60))
    /\ [](\A dom \in Domains :
             \A m1, m2, m3 \in DomainAlerts(dom) :
                 (m1 # m2 /\ m2 # m3 /\ m1 # m3) =>
                     \E a, b \in {m1, m2, m3} : a.ts - b.ts >= 24 * 60)

\* d1 went from 8 days to 7 within two hours: the cycle raised the critical
\* alert although the warning alert was two hours old
C26_Witness ==
    /\ pc["w1"] = "done"
    /\ \E m1, m2 \in DomainAlerts("d1") :
           /\ m1.alert_type = "warning" /\ m1.message.days = 8
           /\ m2.alert_type = "critical" /\ m2.message.days = 7
           /\ m2.ts - m1.ts = 2 * 60
           /\ m2.ts = now
    /\ pushes[DomainSubject("d1", 8)] = 1
    /\ pushes[DomainSubject("d1", 7)] = 1

\* C28: at the end of every health/expiry cycle, whether or not an insert
\* of the cycle failed, the monitor has sent as many pushes for a subject
\* as it has persisted messages with that subject.
C28_PushMatchesRecord ==
    (\A w \in Workers : pc[w] \in {"idle", "done", "aborted"}) =>
        \A s \in AllSubjects :
            pushes[s] = Cardinality({m \in MonitorAlerts : m.subject = s})

----------------------------------------------------------------------------
(* Properties of the dedup check against the other writers of 'messages' *)

\* an alert of the monitor with subject s is younger than 24 h
RecentMonitorAlert(s) ==
    \E m \in MonitorAlerts : m.subject = s /\ now - m.ts < 24 * 60

\* C24: only the alerts of the monitor count in the dedup check: when no
\* monitor alert with the subject is younger than 24 h, an offline endpoint
\* or a domain that is due gets its push and its message, whatever a
\* visitor or the admin has posted under the same subject.
C24_OnlyMonitorAlertsCount ==
    [][\A w \in Workers :
          /\ (pc[w] = "query" /\ Stepped(w) /\ faults' = faults
                /\ ~ RecentMonitorAlert(OutageSubject(Cur(w)))) =>
                 pc'[w] = "push"
          /\ (pc[w] = "dquery" /\ Stepped(w) /\ faults' = faults
                /\ ~ RecentMonitorAlert(DomainSubject(Cur(w), days[w]))) =>
                 pc'[w] = "dpush"]_vars

\* a message of S with subject s, read or not, is younger than 24 h
Recent(S, s) ==
    \E m \in S : m.subject = s /\ m.ts_native /\ now - m.ts < 24 * 60

\* C27: the dedup check looks at subject and timestamp, not at is_read: a
\* request that marks a message as read or unread changes nothing else, so
\* the window of its subject stays as it was, and a cycle raises an alert
\* exactly when no message with the subject, read or unread, is still in
\* the store and younger than 24 h; after the alert was deleted the same
\* observation raises a new message and a new push.
C27_ReadKeepsWindow ==
    [][/\ (\E m \in messages :
              messages' = (messages \ {m}) \cup {[m EXCEPT !.is_read = ~ @]})
          => /\ \A s \in AllSubjects : Recent(messages', s) <=> Recent(messages, s)
             /\ UNCHANGED pushes
       /\ \A w \in Workers :
              /\ (pc[w] = "query" /\ Stepped(w) /\ faults' = faults) =>
                     (pc'[w] = "push" <=>
                          ~ Recent(messages, OutageSubject(Cur(w))))
              /\ (pc[w] = "dquery" /\ Stepped(w) /\ faults' = faults) =>
                     (pc'[w] = "dpush" <=>
                          ~ Recent(messages, DomainSubject(Cur(w), days[w])))
      ]_vars

\* the first alert of e1 was deleted and the endpoint alerted again at once
\* (two pushes, one message); that second alert was marked as read, and 23 h
\* later a cycle has written e1 offline without raising anything
C27_Witness ==
    /\ pc["w1"] = "done"
    /\ faults = 0
    /\ now = 23 * 60
    /\ "e1" \in DOMAIN vault
    /\ vault["e1"] = [last_status |-> "offline", last_check |-> {now}]
    /\ pushes[OutageSubject("e1")] = 2
    /\ \E m \in messages :
           /\ m.subject = OutageSubject("e1") /\ m.ts = 0 /\ m.is_read
           /\ \A m2 \in messages : m2.subject = m.subject => m2 = m

\* C29: a message of the dedup query whose timestamp is stored as a string
\* does not end the cycle: without a store error the liveness loop never
\* stops at the dedup check, so the endpoints after it and the expiry pass
\* still run.
C29_StringTimestampHandled ==
    [][\A w \in Workers :
          (pc[w] = "query" /\ Stepped(w) /\ faults' = faults) =>
              pc'[w] # "aborted"]_vars

====
